---- MODULE Spec2Model ----
(***************************************************************************)
(* Model of the CardConjurer customisation layer:                          *)
(*   - creator.js: the debounced Scryfall mana-cost lookup, the rarity     *)
(*     dropdown, the save-button click handler, the editor bootstrap       *)
(*     bridge;                                                             *)
(*   - the card view template: the remove-back-face click handler;         *)
(*   - the creator page template: the auto-frame option staged for the     *)
(*     face opened for editing.                                            *)
(* The browser runs one handler at a time (single UI thread), so every     *)
(* handler run, timer firing and reply callback is one atomic action.      *)
(* The embedded editor (textEdited, getCardName, ...) is an external       *)
(* collaborator; what the handlers read from it is an input of the action. *)
(***************************************************************************)
EXTENDS Integers, Sequences, FiniteSets, TLC

VARIABLES
    \* ---- creator page: text editor and mana lookup
    cardText,           \* card.text[k].text for each text field k
    selectedTextIndex,  \* index of the text field shown in #text-editor
    editorVal,          \* $("#text-editor").val()
    ScryfallTimer,      \* handle of the debounce timer set last, or NoTimer
    timers,             \* the browser's pending timers: handle -> ms left
    lookups,            \* $.get requests in flight, in the order sent
    \* ---- creator page: frames, auto-frame selection, save button
    cardFrames,         \* card.frames of the live card object
    cardAutoFrame,      \* card.autoFrame of the live card object, or NoEntry
    autoFrameVal,       \* $("#autoFrame").val()
    autoLoadChecked,    \* $("#autoLoadFrameVersion").prop("checked")
    localStorage,       \* the keys of local storage this script writes
    EDITING_BACK,       \* page constant: editing the back face
    cardId,             \* page constant: pk of the card, NullId for a new card
    saveBtnDisabled,    \* saveBtn.prop("disabled")
    saveBtnText,        \* saveBtn.text()
    savePending,        \* save requests in flight
    location,           \* location.href
    \* ---- creator page: rarity widgets
    setSymbolRarity,    \* $("#set-symbol-rarity").val(), the dropdown
    infoRarity,         \* $("#info-rarity").val()
    rarityEvents,       \* events handled by the rarity widgets so far
    \* ---- card view page: remove back face
    hasRemoveBtn,       \* the page was rendered with #remove-back-btn
    removePending,      \* bodies of the remove-back-face POSTs in flight
    removePosts,        \* POSTs issued since the page was first opened
    reloads,            \* location.reload() calls so far
    \* ---- creator page: editor bootstrap bridge
    bootPc,             \* "start" before the page-ready handler ran, then "ready"
    cardDataText,       \* $("#card-data").text()
    editData,           \* local storage item editData
    loadCardState,      \* the promise of loadCard("editData")
    loadTimers,         \* pending post-load timers: function name -> ms left
    renderCalls,        \* calls made by post-load timers: function name -> count
    sinceLoad,          \* ms since loadCard completed, capped at PostLoadDelay
    \* ---- server and page template: the faces of the card being edited
    serverFaces,        \* the face stored for each side, or NoFace
    autoFrameItem,      \* local storage item autoFrame
    lastSavedAutoFrame, \* history: per side, the option sent with the last save
    \* ---- observation of the last handler run
    ev,                 \* the event handled last, with its inputs
    out,                \* the calls to collaborators made by that handler
    \* ---- history (not read by any handler)
    sinceInput,         \* ms since the last input event, capped at Debounce
    lastTyped,          \* text of the field right after the last input event
    burstLookups,       \* lookups issued since the current burst began
    burstMana,          \* mana-cost field selected during the whole burst
    inputCredit,        \* input events minus timer firings, capped from above
    labelBeforeClick    \* saveBtn.text() before the click that started a save

lookupVars == <<cardText, selectedTextIndex, editorVal, ScryfallTimer, timers,
                lookups, sinceInput, lastTyped, burstLookups, burstMana,
                inputCredit>>

saveVars == <<cardFrames, cardAutoFrame, autoFrameVal, autoLoadChecked,
              localStorage, EDITING_BACK, cardId, saveBtnDisabled, saveBtnText,
              savePending, location, labelBeforeClick>>

rarityVars == <<setSymbolRarity, infoRarity, rarityEvents>>

viewVars == <<hasRemoveBtn, removePending, removePosts, reloads>>

bootVars == <<bootPc, cardDataText, editData, loadCardState, loadTimers,
              renderCalls, sinceLoad>>

faceVars == <<serverFaces, autoFrameItem, lastSavedAutoFrame>>

vars == <<lookupVars, saveVars, rarityVars, viewVars, bootVars, faceVars,
          ev, out>>

----------------------------------------------------------------------------
\* Bounds of the model.

\* Lookup requests that may be in flight at once.
MaxInFlight == 2

\* Input events not yet matched by a timer firing that are counted.
MaxCredit == 1

\* Frames of the card.
MaxFrames == 2

\* Remove-back-face POSTs that may be in flight at once, POSTs issued and
\* page reloads followed.
MaxRemovePending == 3

MaxRemovePosts == 5

MaxReloads == 3

\* Events on the rarity widgets followed.
MaxRarityEvents == 4

----------------------------------------------------------------------------
\* Program constants.

\* setTimeout(checkScryfall, 1000)
Debounce == 1000

\* Granularity of the model's clock: time advances in steps of this many ms.
TimeStep == Debounce \div 2

\* setTimeout(textEdited, 2000) and the two timers set with it
PostLoadDelay == 2000

\* Granularity of the clock after loadCard completed.
BootStep == PostLoadDelay \div 4

\* The functions the post-load timers call.
RerenderCalls == {"textEdited", "bottomInfoEdited", "resetSetSymbol"}

\* let ScryfallTimer = null: no timer was set yet.
NoTimer == -1

\* clearTimeout(h): the timer with handle h, if pending, is dropped.
clearTimeout(ts, h) == [id \in DOMAIN ts \ {h} |-> ts[id]]

\* The handle setTimeout returns: one no pending timer has.
NewTimerId(ts) ==
    CHOOSE id \in 1..(Cardinality(DOMAIN ts) + 1) :
        /\ id \notin DOMAIN ts
        /\ \A j \in 1..(id - 1) : j \in DOMAIN ts

\* setTimeout(f, delay)
setTimeout(ts, delay) == ts @@ (NewTimerId(ts) :> delay)

\* The text boxes of the card: a name is a sequence of words.
TextFieldNames == << <<"Mana", "Cost">>, <<"Rules", "Text">> >>

TextFields == 1..Len(TextFieldNames)

\* Texts the user types into the editor.
TypedTexts == {"", "2R", "G"}

\* result.cost of a successful lookup: "" stands for a reply without a cost.
ReplyCosts == {"", "{2}{R}", "{G}"}

\* String.prototype.includes at word granularity.
Includes(s, sub) ==
    \E i \in 0..(Len(s) - Len(sub)) : SubSeq(s, i + 1, i + Len(sub)) = sub

\* Variant: the name of the selected box is not looked at.
IsManaCostAnyBox(k) == k \in TextFields

\* selectedText.name.includes("Mana Cost")
IsManaCost(k) == Includes(TextFieldNames[k], <<"Mana", "Cost">>)

RemoveAt(s, i) == SubSeq(s, 1, i - 1) \o SubSeq(s, i + 1, Len(s))

Min(a, b) == IF a < b THEN a ELSE b

Range(s) == {s[i] : i \in DOMAIN s}

\* A call a handler makes to a collaborator, as recorded in out.
Call(f) == [call |-> f]

\* notify(msg, 5)
Notify(m) == [call |-> "notify", msg |-> m]

\* $.post(settings)
Post(u, d) == [call |-> "$.post", url |-> u, data |-> d]

\* delete obj[k]
DeleteKey(obj, k) == [x \in DOMAIN obj \ {k} |-> obj[x]]

\* Page constants injected by the template.
NullId == "null"

CardIds == {NullId, "7"}

setId == "3"

SAVE_URL(pk) == IF pk = NullId THEN "api-create-card" ELSE "api-update-card"

\* location.href while the creator page is open, and the view_url values a
\* save response may carry.
CreatorPage == "creator"

ViewUrls == {"/card/7", "/card/8"}

\* Values getCardName() may return.
CardNames == {"", "unnamed", "Unnamed", "Bolt"}

\* Options of the #autoFrame select.
AutoFrameOptions == {"false", "M15Regular-1", "Seventh-3"}

\* An object has no entry under a key.
NoEntry == "undefined"

\* An in-memory image (HTMLImageElement) and what JSON makes of it.
ImageHandle == "[object HTMLImageElement]"

EmptyObject == "{}"

\* cardCanvas.toDataURL('image/png')
imageDataURL == "data:image/png;base64"

\* A mask and a frame of the card, as JSON objects (key -> value).
MaskOf(img) ==
    IF img THEN ("name" :> "mask") @@ ("image" :> ImageHandle)
    ELSE ("name" :> "mask")

FrameOf(img, ms) ==
    LET base == ("name" :> "frame")
                @@ ("masks" :> [j \in 1..Len(ms) |-> MaskOf(ms[j])])
    IN  IF img THEN base @@ ("image" :> ImageHandle) ELSE base

\* The masks of a frame: for each mask, whether it holds an image.
MaskSeqs == {<<>>, <<TRUE>>, <<FALSE>>, <<FALSE, TRUE>>}

Frames == {FrameOf(img, ms) : img \in BOOLEAN, ms \in MaskSeqs}

\* The five options of the rarity dropdown: <<value, label>>.
RARITIES == << <<"", "Select Rarity">>, <<"C", "Common">>, <<"U", "Uncommon">>,
               <<"R", "Rare">>, <<"M", "Mythic Rare">> >>

RarityValues == {RARITIES[i][1] : i \in 1..Len(RARITIES)}

\* Values the user may type into #info-rarity directly.
InfoRarityValues == RarityValues \cup {"P", "p", "c"}

\* String.prototype.toUpperCase on the strings of the model.
toUpperCase(s) ==
    CASE s = "p" -> "P"
      [] s = "c" -> "C"
      [] s = "u" -> "U"
      [] s = "r" -> "R"
      [] s = "m" -> "M"
      [] OTHER -> s

\* The label of the save button in the editor's markup.
InitialSaveLabel == "Save Card"

\* JSON text is written as the one-element sequence of the value it
\* encodes; the empty text is the empty sequence.
JSONStringify(d) == <<d>>

JSONParse(t) == t[1]

\* $("#card-data").text() of a page rendered without face data.
NoData == <<>>

\* localStorage.getItem of a key that was never set.
NoItem == <<>>

\* Rules texts, as sequences of characters and words.
RulesTexts == {<<>>, <<"Flying">>, <<"\"", "Hi", " ", "\"", "you", "\"", "\"">>}

\* Typographic quote normalisation: a straight double quote opens at the
\* start of the text and after a space, and closes elsewhere.
curlyQuotes(t) ==
    [i \in 1..Len(t) |->
        IF t[i] /= "\"" THEN t[i]
        ELSE IF i = 1 \/ t[i - 1] = " " THEN "ldquo" ELSE "rdquo"]

\* Face objects the server renders into #card-data: without text boxes,
\* without a rules box, and with a rules box holding each rules text.
FaceData ==
    {("name" :> "Bolt"),
     ("name" :> "Bolt") @@ ("text" :> ("mana" :> ("text" :> <<"R">>)))}
    \cup {("name" :> "Bolt") @@ ("text" :> ("rules" :> ("text" :> t))) :
            t \in RulesTexts}

\* data.text && data.text.rules && data.text.rules.text
HasRulesText(d) ==
    /\ "text" \in DOMAIN d
    /\ "rules" \in DOMAIN d["text"]
    /\ "text" \in DOMAIN d["text"]["rules"]
    /\ d["text"]["rules"]["text"] /= <<>>

\* The object staged under editData: the face data with its rules text,
\* if it has one, run through curlyQuotes.
StagedData(d) ==
    IF HasRulesText(d)
    THEN [d EXCEPT !["text"]["rules"]["text"] = curlyQuotes(@)]
    ELSE d

\* The sides of a card.
Sides == {"front", "back"}

\* The server holds no face for a side.
NoFace == <<>>

\* django.utils.html.escape, which {{ ... }} applies: & < > " ' become
\* entities.  The options of #autoFrame hold none of them.
HtmlEscape(v) == IF v = "&" THEN "&amp;" ELSE v

\* Variant: a face without a saved option gets the option of a new card.
StageAutoFrameNoElif(face) ==
    IF face /= NoFace /\ "autoFrame" \in DOMAIN face /\ face["autoFrame"] /= ""
    THEN HtmlEscape(face["autoFrame"])
    ELSE "M15Regular-1"

\* The value the page template stores under autoFrame for face_to_edit:
\* {% if face_to_edit.autoFrame %} ... {% elif face_to_edit %} ... {% else %}.
\* A missing key and the empty string are false in the template.
StageAutoFrame(face) ==
    IF face /= NoFace /\ "autoFrame" \in DOMAIN face /\ face["autoFrame"] /= ""
    THEN HtmlEscape(face["autoFrame"])
    ELSE IF face /= NoFace THEN "false"
    ELSE "M15Regular-1"

\* The save endpoint keeps the face sent under front or back as the face of
\* that side and leaves the other side alone.
ServerStore(faces, body) ==
    [side \in Sides |-> IF side \in DOMAIN body THEN body[side] ELSE faces[side]]

\* A face saved before the auto-frame option was sent along.
LegacyFace == ("frames" :> <<>>)

\* Faces the server may hold for a side when the model starts.
StoredFaces ==
    {NoFace, LegacyFace, LegacyFace @@ ("autoFrame" :> "")}
    \cup {LegacyFace @@ ("autoFrame" :> v) : v \in AutoFrameOptions}

\* The side a page edits.
SideOf(editingBack) == IF editingBack THEN "back" ELSE "front"

\* What an earlier page left under editData.
StaleItem == JSONStringify(("name" :> "Old"))

----------------------------------------------------------------------------
\* Initial state: the page as loaded, nothing typed, no timer, no request.

PageInit ==
    /\ cardText = [k \in TextFields |-> ""]
    /\ selectedTextIndex = 1
    /\ editorVal = ""
    /\ ScryfallTimer = NoTimer
    /\ timers = <<>>
    /\ inputCredit = 0
    /\ lookups = <<>>
    /\ ev = [op |-> "load"]
    /\ out = <<>>
    /\ sinceInput = Debounce
    /\ lastTyped = ""
    /\ burstLookups = 0
    /\ burstMana = FALSE
    /\ cardFrames = <<>>
    /\ autoFrameVal = "false"
    /\ EDITING_BACK \in BOOLEAN
    /\ cardId \in CardIds
    /\ cardAutoFrame \in IF cardId = NullId THEN {NoEntry}
                         ELSE {NoEntry, "Seventh-3"}
    /\ autoLoadChecked = (cardId = NullId)
    /\ localStorage = [autoLoadFrameVersion |->
                          IF cardId = NullId THEN "true" ELSE "false"]
    /\ saveBtnDisabled = FALSE
    /\ saveBtnText = InitialSaveLabel
    /\ labelBeforeClick = InitialSaveLabel
    /\ savePending = 0
    /\ location = CreatorPage
    /\ setSymbolRarity = ""
    /\ infoRarity = ""
    /\ rarityEvents = 0
    /\ hasRemoveBtn = TRUE
    /\ removePending = <<>>
    /\ removePosts = 0
    /\ reloads = 0
    /\ loadCardState = "not called"
    /\ loadTimers = <<>>
    /\ renderCalls = [fn \in RerenderCalls |-> 0]
    /\ sinceLoad = PostLoadDelay

\* Nothing is stored for the card: the template staged the option of a
\* new card.
NoFaceStored ==
    /\ serverFaces = [side \in Sides |-> NoFace]
    /\ autoFrameItem = StageAutoFrame(NoFace)
    /\ lastSavedAutoFrame = [side \in Sides |-> NoEntry]

\* The page once the page-ready handler has run, opened without face data.
Init ==
    /\ PageInit
    /\ NoFaceStored
    /\ bootPc = "ready"
    /\ cardDataText = NoData
    /\ editData = NoItem

----------------------------------------------------------------------------
\* Mana-cost debounce and lookup.

\* Variant: the pending timer is not cleared before the new one is set.
restartWithoutClear(ts, h) ==
    [timers |-> setTimeout(ts, Debounce), handle |-> NewTimerId(ts)]

\* restartScryfallTimer: clearTimeout, then setTimeout(checkScryfall, 1000).
\* Gives the pending timers and the value of ScryfallTimer afterwards.
restartScryfallTimer(ts, h) ==
    LET cleared == clearTimeout(ts, h)
    IN  [timers |-> setTimeout(cleared, Debounce),
         handle |-> NewTimerId(cleared)]

\* An input event on #text-editor: the user makes the field read v.  The
\* editor's own oninput handler (textEdited) copies the field into the card;
\* the hook of creator.js restarts the debounce timer.
TextInput(v) ==
    /\ UNCHANGED <<saveVars, rarityVars, viewVars, bootVars, faceVars>>
    /\ v /= editorVal
    /\ editorVal' = v
    /\ cardText' = [cardText EXCEPT ![selectedTextIndex] = v]
    /\ timers' = restartScryfallTimer(timers, ScryfallTimer).timers
    /\ ScryfallTimer' = restartScryfallTimer(timers, ScryfallTimer).handle
    /\ inputCredit' = Min(inputCredit + 1, MaxCredit)
    /\ lookups' = [i \in 1..Len(lookups) |-> [lookups[i] EXCEPT !.stale = TRUE]]
    /\ ev' = [op |-> "input", text |-> v]
    /\ out' = <<Call("textEdited")>>
    /\ sinceInput' = 0
    /\ lastTyped' = v
    /\ burstLookups' = IF sinceInput < Debounce THEN burstLookups ELSE 0
    /\ burstMana' = /\ IsManaCost(selectedTextIndex)
                    /\ (sinceInput < Debounce => burstMana)
    /\ UNCHANGED selectedTextIndex

\* The user selects another text box: the editor shows that box's text.
\* No input event is dispatched for it.
SelectText(k) ==
    /\ UNCHANGED <<saveVars, rarityVars, viewVars, bootVars, faceVars>>
    /\ k /= selectedTextIndex
    /\ selectedTextIndex' = k
    /\ editorVal' = cardText[k]
    /\ ev' = [op |-> "select", index |-> k]
    /\ out' = <<>>
    /\ burstMana' = (burstMana /\ IsManaCost(k))
    /\ UNCHANGED <<cardText, ScryfallTimer, timers, lookups, sinceInput,
                   lastTyped, burstLookups, inputCredit>>

\* Time passes.  A timer that is due fires before time moves on.
Tick ==
    /\ UNCHANGED <<saveVars, rarityVars, viewVars, bootVars, faceVars>>
    /\ \A id \in DOMAIN timers : timers[id] >= TimeStep
    /\ timers /= <<>> \/ sinceInput < Debounce
    /\ timers' = [id \in DOMAIN timers |-> timers[id] - TimeStep]
    /\ sinceInput' = Min(sinceInput + TimeStep, Debounce)
    /\ ev' = [op |-> "tick"]
    /\ out' = <<>>
    /\ UNCHANGED <<cardText, selectedTextIndex, editorVal, ScryfallTimer,
                   lookups, lastTyped, burstLookups, burstMana, inputCredit>>

\* The request checkScryfall sends: the text of the selected box as query.
\* field (the box selected when it was sent) and stale are history.
LookupRequest(text) ==
    [query |-> text, stale |-> FALSE, field |-> selectedTextIndex]

\* A timer set by restartScryfallTimer fires: checkScryfall runs up to its
\* await.  The handle in ScryfallTimer stays as it is.
checkScryfall ==
    /\ UNCHANGED <<saveVars, rarityVars, viewVars, bootVars, faceVars>>
    /\ \E id \in DOMAIN timers :
          /\ timers[id] = 0
          /\ timers' = clearTimeout(timers, id)
    /\ inputCredit' = inputCredit - 1
    /\ UNCHANGED ScryfallTimer
    /\ IF IsManaCost(selectedTextIndex)
       THEN /\ Len(lookups) < MaxInFlight
            /\ lookups' = Append(lookups,
                                 LookupRequest(cardText[selectedTextIndex]))
            /\ burstLookups' = burstLookups + 1
            /\ ev' = [op |-> "checkScryfall", sent |-> TRUE,
                      query |-> cardText[selectedTextIndex]]
            /\ out' = <<Call("$.get")>>
       ELSE /\ UNCHANGED <<lookups, burstLookups>>
            /\ ev' = [op |-> "checkScryfall", sent |-> FALSE, query |-> ""]
            /\ out' = <<>>
    /\ UNCHANGED <<cardText, selectedTextIndex, editorVal, sinceInput,
                   lastTyped, burstMana>>

\* What checkScryfall does with a successful reply: with a cost it writes
\* the field and calls textEdited, which copies the field into the selected
\* text box of the card.
ApplyResult(cost) ==
    IF cost /= ""
    THEN /\ editorVal' = cost
         /\ cardText' = [cardText EXCEPT ![selectedTextIndex] = cost]
         /\ out' = <<Call("textEdited")>>
    ELSE /\ UNCHANGED <<editorVal, cardText>>
         /\ out' = <<>>

\* The reply to request i arrives with success: checkScryfall resumes.
LookupDone(i, cost) ==
    /\ UNCHANGED <<saveVars, rarityVars, viewVars, bootVars, faceVars>>
    /\ i \in 1..Len(lookups)
    /\ ApplyResult(cost)
    /\ lookups' = RemoveAt(lookups, i)
    /\ ev' = [op |-> "lookupDone", req |-> lookups[i], cost |-> cost]
    /\ UNCHANGED <<selectedTextIndex, ScryfallTimer, timers, sinceInput,
                   lastTyped, burstLookups, burstMana, inputCredit>>

\* Variant: the catch block also clears the field and re-renders.
CatchLookupErrorClearsField ==
    /\ editorVal' = ""
    /\ cardText' = [cardText EXCEPT ![selectedTextIndex] = ""]
    /\ out' = <<Call("console.error"), Call("textEdited")>>

\* What the catch block of checkScryfall does: log and return.
CatchLookupError ==
    /\ out' = <<Call("console.error")>>
    /\ UNCHANGED <<editorVal, cardText>>

\* The reply to request i arrives with an error: the await throws.
LookupFail(i) ==
    /\ UNCHANGED <<saveVars, rarityVars, viewVars, bootVars, faceVars>>
    /\ i \in 1..Len(lookups)
    /\ CatchLookupError
    /\ lookups' = RemoveAt(lookups, i)
    /\ ev' = [op |-> "lookupFail", req |-> lookups[i]]
    /\ UNCHANGED <<selectedTextIndex, ScryfallTimer, timers, sinceInput,
                   lastTyped, burstLookups, burstMana, inputCredit>>

LookupNext ==
    \/ \E v \in TypedTexts : TextInput(v)
    \/ \E k \in TextFields : SelectText(k)
    \/ Tick
    \/ checkScryfall
    \/ \E i \in 1..MaxInFlight, c \in ReplyCosts : LookupDone(i, c)
    \/ \E i \in 1..MaxInFlight : LookupFail(i)


\* One page: a new card, front face.
NewCardInit == Init /\ ~EDITING_BACK /\ cardId = NullId

SpecLookup == NewCardInit /\ [][LookupNext]_vars

----------------------------------------------------------------------------
\* Save flow.

\* The editor adds a frame to the card, or removes the last one.
AddFrame(f) ==
    /\ UNCHANGED <<lookupVars, rarityVars, viewVars, bootVars, faceVars>>
    /\ location = CreatorPage
    /\ Len(cardFrames) < MaxFrames
    /\ cardFrames' = Append(cardFrames, f)
    /\ ev' = [op |-> "addFrame"]
    /\ out' = <<>>
    /\ UNCHANGED <<cardAutoFrame, autoFrameVal, autoLoadChecked, localStorage,
                   EDITING_BACK, cardId, saveBtnDisabled, saveBtnText,
                   savePending, location, labelBeforeClick>>

RemoveFrame ==
    /\ UNCHANGED <<lookupVars, rarityVars, viewVars, bootVars, faceVars>>
    /\ location = CreatorPage
    /\ Len(cardFrames) > 0
    /\ cardFrames' = SubSeq(cardFrames, 1, Len(cardFrames) - 1)
    /\ ev' = [op |-> "removeFrame"]
    /\ out' = <<>>
    /\ UNCHANGED <<cardAutoFrame, autoFrameVal, autoLoadChecked, localStorage,
                   EDITING_BACK, cardId, saveBtnDisabled, saveBtnText,
                   savePending, location, labelBeforeClick>>

\* Variant: the checkbox is checked but the stored flag is left as it is.
AutoLoadOnCheckboxOnly ==
    /\ autoLoadChecked' = TRUE
    /\ UNCHANGED localStorage

\* A change event on #selectFrameGroup or #autoFrame: the handler turns
\* auto load frame version back on.
AutoLoadOn ==
    /\ autoLoadChecked' = TRUE
    /\ localStorage' = [localStorage EXCEPT !.autoLoadFrameVersion = "true"]

AutoFrameChange(v) ==
    /\ UNCHANGED <<lookupVars, rarityVars, viewVars, bootVars, faceVars>>
    /\ location = CreatorPage
    /\ v /= autoFrameVal
    /\ autoFrameVal' = v
    /\ AutoLoadOn
    /\ ev' = [op |-> "autoFrameChange", value |-> v]
    /\ out' = <<>>
    /\ UNCHANGED <<cardFrames, cardAutoFrame, EDITING_BACK, cardId,
                   saveBtnDisabled, saveBtnText, savePending, location,
                   labelBeforeClick>>

FrameGroupChange ==
    /\ UNCHANGED <<lookupVars, rarityVars, viewVars, bootVars, faceVars>>
    /\ location = CreatorPage
    /\ AutoLoadOn
    /\ ev' = [op |-> "frameGroupChange"]
    /\ out' = <<>>
    /\ UNCHANGED <<cardFrames, cardAutoFrame, autoFrameVal, EDITING_BACK,
                   cardId, saveBtnDisabled, saveBtnText, savePending, location,
                   labelBeforeClick>>

\* Variant: only the empty name is rejected.
NameRejectedEmptyOnly(name) == name = ""

\* !name || name === "unnamed"
NameRejected(name) == name = "" \/ name = "unnamed"

\* JSON.parse(JSON.stringify(card)), on the frames: an image handle has no
\* enumerable property of its own and comes back as an empty object.
JSONCopyMask(m) ==
    [k \in DOMAIN m |-> IF k = "image" THEN EmptyObject ELSE m[k]]

JSONCopyFrame(f) ==
    [k \in DOMAIN f |->
        CASE k = "image" -> EmptyObject
          [] k = "masks" -> [j \in 1..Len(f[k]) |-> JSONCopyMask(f[k][j])]
          [] OTHER -> f[k]]

JSONCopy(frames) == [i \in 1..Len(frames) |-> JSONCopyFrame(frames[i])]

\* Variant: the images of the masks are not deleted.
StripFrameNotMasks(f) == DeleteKey(f, "image")

\* frame => { delete frame.image; frame.masks.forEach(mask => delete mask.image) }
StripFrame(f) ==
    LET g == DeleteKey(f, "image")
    IN  [g EXCEPT !["masks"] =
            [j \in 1..Len(g["masks"]) |-> DeleteKey(g["masks"][j], "image")]]

\* cardToSave: the deep copy with the image handles deleted and the selected
\* auto-frame option attached.
CardToSave(frames, autoFrame) ==
    LET copy == JSONCopy(frames)
    IN  ("frames" :> [i \in 1..Len(copy) |-> StripFrame(copy[i])])
        @@ ("autoFrame" :> autoFrame)

\* Variant: cardToSave is the live card itself, not a copy of it.
LiveCardWithoutCopy(frames, entry, autoFrame) ==
    [frames |-> [i \in 1..Len(frames) |-> StripFrame(frames[i])],
     autoFrame |-> autoFrame]

\* The live card once cardToSave is prepared: the deletions and the
\* autoFrame entry went to the copy JSON.parse(JSON.stringify(card)) made.
LiveCardAfterCopy(frames, entry, autoFrame) ==
    [frames |-> frames, autoFrame |-> entry]

\* Variant: the face is always sent as the front face.
SaveDataAlwaysFront(pk, editingBack, cardToSave, image) ==
    ("pk" :> pk) @@ ("set" :> setId)
    @@ ("front" :> cardToSave) @@ ("front_image" :> image)

\* The request body: pk, set and the face under the key of the edited side.
SaveData(pk, editingBack, cardToSave, image) ==
    ("pk" :> pk) @@ ("set" :> setId)
    @@ (IF editingBack
        THEN ("back" :> cardToSave) @@ ("back_image" :> image)
        ELSE ("front" :> cardToSave) @@ ("front_image" :> image))

\* A click on the save button.  A disabled button dispatches no click.
\* name is what getCardName() returns; tainted says that the canvas holds
\* cross-origin pixels, so that toDataURL throws.
SaveClick(name, tainted) ==
    /\ UNCHANGED <<lookupVars, rarityVars, viewVars, bootVars, faceVars>>
    /\ ~saveBtnDisabled
    /\ ev' = [op |-> "saveClick", name |-> name, tainted |-> tainted]
    /\ IF NameRejected(name)
       THEN /\ out' = <<Notify("You must give your card a name to save it!")>>
            /\ UNCHANGED <<saveBtnDisabled, saveBtnText, savePending,
                           labelBeforeClick, cardFrames, cardAutoFrame>>
       ELSE /\ saveBtnDisabled' = TRUE
            /\ saveBtnText' = "Saving..."
            /\ labelBeforeClick' = saveBtnText
            /\ LET live == LiveCardAfterCopy(cardFrames, cardAutoFrame,
                                             autoFrameVal)
               IN  /\ cardFrames' = live.frames
                   /\ cardAutoFrame' = live.autoFrame
            /\ IF tainted
               THEN /\ out' = <<>>
                    /\ UNCHANGED savePending
               ELSE /\ out' = <<Post(SAVE_URL(cardId),
                                     SaveData(cardId, EDITING_BACK,
                                              CardToSave(cardFrames, autoFrameVal),
                                              imageDataURL))>>
                    /\ savePending' = savePending + 1
    /\ UNCHANGED <<autoFrameVal, autoLoadChecked, localStorage, EDITING_BACK,
                   cardId, location>>

\* Variant: the button is enabled again once the card is saved.
SaveDoneHandlerEnables(view_url) ==
    /\ saveBtnText' = "Saved!"
    /\ saveBtnDisabled' = FALSE
    /\ location' = view_url
    /\ out' = <<>>

\* Variant: the page navigates to the view page of the card being edited,
\* whatever the response carries.
SaveDoneHandlerOwnCard(view_url) ==
    /\ saveBtnText' = "Saved!"
    /\ location' = "/card/7"
    /\ out' = <<>>
    /\ UNCHANGED saveBtnDisabled

\* .done: the label changes and the page navigates to data.view_url.
SaveDoneHandler(view_url) ==
    /\ saveBtnText' = "Saved!"
    /\ location' = view_url
    /\ out' = <<>>
    /\ UNCHANGED saveBtnDisabled

\* The save request succeeds with a response carrying view_url.
SaveDone(view_url) ==
    /\ UNCHANGED <<lookupVars, rarityVars, viewVars, bootVars, faceVars>>
    /\ location = CreatorPage
    /\ savePending > 0
    /\ savePending' = savePending - 1
    /\ SaveDoneHandler(view_url)
    /\ ev' = [op |-> "saveDone", view_url |-> view_url]
    /\ UNCHANGED <<cardFrames, cardAutoFrame, autoFrameVal, autoLoadChecked,
                   localStorage, EDITING_BACK, cardId, labelBeforeClick>>

\* Variant: the failed request is sent again.
SaveFailHandlerRetries ==
    /\ saveBtnDisabled' = FALSE
    /\ saveBtnText' = "Save Card"
    /\ out' = <<Notify("There was an error saving your card."),
                Post(SAVE_URL(cardId),
                     SaveData(cardId, EDITING_BACK,
                              CardToSave(cardFrames, autoFrameVal),
                              imageDataURL))>>
    /\ UNCHANGED location

\* Variant: the button is enabled but keeps the label "Saving...".
SaveFailHandlerNoRelabel ==
    /\ saveBtnDisabled' = FALSE
    /\ out' = <<Notify("There was an error saving your card.")>>
    /\ UNCHANGED <<saveBtnText, location>>

\* .fail: the button is enabled and relabelled, the user is notified.
SaveFailHandler ==
    /\ saveBtnDisabled' = FALSE
    /\ saveBtnText' = "Save Card"
    /\ out' = <<Notify("There was an error saving your card.")>>
    /\ UNCHANGED location

\* The save request fails.
SaveFail ==
    /\ UNCHANGED <<lookupVars, rarityVars, viewVars, bootVars, faceVars>>
    /\ location = CreatorPage
    /\ savePending > 0
    /\ savePending' = savePending - 1
    /\ SaveFailHandler
    /\ ev' = [op |-> "saveFail"]
    /\ UNCHANGED <<cardFrames, cardAutoFrame, autoFrameVal, autoLoadChecked,
                   localStorage, EDITING_BACK, cardId, labelBeforeClick>>

SaveNext ==
    \/ \E f \in Frames : AddFrame(f)
    \/ RemoveFrame
    \/ \E v \in AutoFrameOptions : AutoFrameChange(v)
    \/ FrameGroupChange
    \/ \E name \in CardNames, tainted \in BOOLEAN : SaveClick(name, tainted)
    \/ \E u \in ViewUrls : SaveDone(u)
    \/ SaveFail


SpecSave == Init /\ [][SaveNext]_vars

----------------------------------------------------------------------------
\* Rarity dropdown.

\* Variant: the label of the option is copied instead of its value.
RarityToInfoLabel(v) ==
    LET i == CHOOSE j \in 1..Len(RARITIES) : RARITIES[j][1] = v
    IN  toUpperCase(RARITIES[i][2])

\* The input handler of the dropdown: $(this).val().toUpperCase().
RarityToInfo(v) == toUpperCase(v)

\* The user picks option v of the dropdown: the input event runs the handler
\* that copies the value to #info-rarity and calls bottomInfoEdited, then the
\* change event runs fetchSetSymbol.
RaritySelect(v) ==
    /\ UNCHANGED <<lookupVars, saveVars, viewVars, bootVars, faceVars>>
    /\ rarityEvents < MaxRarityEvents
    /\ v /= setSymbolRarity
    /\ setSymbolRarity' = v
    /\ infoRarity' = RarityToInfo(v)
    /\ rarityEvents' = rarityEvents + 1
    /\ ev' = [op |-> "raritySelect", value |-> v]
    /\ out' = <<Call("bottomInfoEdited"), Call("fetchSetSymbol")>>

\* What a direct edit of #info-rarity does to the dropdown: creator.js
\* installs no handler on #info-rarity.
DropdownAfterInfoEdit(w, dropdown) == dropdown

\* The user types w into #info-rarity: the editor's own handler re-renders
\* the bottom info.
InfoRarityEdit(w) ==
    /\ UNCHANGED <<lookupVars, saveVars, viewVars, bootVars, faceVars>>
    /\ rarityEvents < MaxRarityEvents
    /\ w /= infoRarity
    /\ infoRarity' = w
    /\ setSymbolRarity' = DropdownAfterInfoEdit(w, setSymbolRarity)
    /\ rarityEvents' = rarityEvents + 1
    /\ ev' = [op |-> "infoRarityEdit", value |-> w]
    /\ out' = <<Call("bottomInfoEdited")>>

RarityNext ==
    \/ \E v \in RarityValues : RaritySelect(v)
    \/ \E w \in InfoRarityValues : InfoRarityEdit(w)

SpecRarity == NewCardInit /\ [][RarityNext]_vars

----------------------------------------------------------------------------
\* Card view page: remove back face.

\* JSON.stringify({}): an object without keys.
RemoveBody == <<>>

RemoveUrl == "api-remove-back-face"

\* Variant: the POST is sent whatever the answer to the prompt.
RemoveRequestsUnconfirmed(confirmed) == <<Post(RemoveUrl, RemoveBody)>>

\* The requests the click handler sends after window.confirm returned
\* confirmed.
RemoveRequests(confirmed) ==
    IF confirmed THEN <<Post(RemoveUrl, RemoveBody)>> ELSE <<>>

\* A click on #remove-back-btn; confirmed is the answer to the prompt.
RemoveBackClick(confirmed) ==
    /\ UNCHANGED <<lookupVars, saveVars, rarityVars, bootVars, faceVars>>
    /\ hasRemoveBtn
    /\ removePosts < MaxRemovePosts
    /\ Len(removePending) + Len(RemoveRequests(confirmed)) <= MaxRemovePending
    /\ out' = RemoveRequests(confirmed)
    /\ removePending' = removePending
                        \o [j \in 1..Len(out') |-> out'[j].data]
    /\ removePosts' = removePosts + Len(out')
    /\ ev' = [op |-> "removeBackClick", confirmed |-> confirmed]
    /\ UNCHANGED <<hasRemoveBtn, reloads>>

\* POST i succeeds: .done reloads the page.  The requests of the page that
\* is left get no callback any more.  The server renders the button on the
\* reloaded page only if the card is (again) double-faced.
RemoveDone(i) ==
    /\ UNCHANGED <<lookupVars, saveVars, rarityVars, bootVars, faceVars>>
    /\ i \in 1..Len(removePending)
    /\ reloads < MaxReloads
    /\ reloads' = reloads + 1
    /\ hasRemoveBtn' \in BOOLEAN
    /\ removePending' = <<>>
    /\ ev' = [op |-> "removeDone"]
    /\ out' = <<Call("location.reload")>>
    /\ UNCHANGED removePosts

\* POST i fails: no .fail handler is installed.
RemoveFail(i) ==
    /\ UNCHANGED <<lookupVars, saveVars, rarityVars, bootVars, faceVars>>
    /\ i \in 1..Len(removePending)
    /\ removePending' = RemoveAt(removePending, i)
    /\ ev' = [op |-> "removeFail"]
    /\ out' = <<>>
    /\ UNCHANGED <<hasRemoveBtn, removePosts, reloads>>

ViewNext ==
    \/ \E c \in BOOLEAN : RemoveBackClick(c)
    \/ \E i \in 1..MaxRemovePending : RemoveDone(i)
    \/ \E i \in 1..MaxRemovePending : RemoveFail(i)

\* The view page of a double-faced card.
ViewInit == Init /\ ~EDITING_BACK /\ cardId = "7"

SpecView == ViewInit /\ [][ViewNext]_vars

----------------------------------------------------------------------------
\* Save, then edit again: the auto-frame option of a face.

\* A save click goes through: the request the click handler sends is kept
\* by the server and the page moves on to the view page.
SaveStored ==
    /\ UNCHANGED <<lookupVars, rarityVars, viewVars, bootVars>>
    /\ location = CreatorPage
    /\ serverFaces' =
          ServerStore(serverFaces,
                      SaveData(cardId, EDITING_BACK,
                               CardToSave(cardFrames, autoFrameVal),
                               imageDataURL))
    /\ lastSavedAutoFrame' =
          [lastSavedAutoFrame EXCEPT ![SideOf(EDITING_BACK)] = autoFrameVal]
    /\ location' = "/card/7"
    /\ ev' = [op |-> "saveStored", side |-> SideOf(EDITING_BACK)]
    /\ out' = <<>>
    /\ UNCHANGED <<cardFrames, cardAutoFrame, autoFrameVal, autoLoadChecked,
                   localStorage, EDITING_BACK, cardId, saveBtnDisabled,
                   saveBtnText, savePending, labelBeforeClick, autoFrameItem>>

\* The creator page is opened for a side of the card: the template stages
\* the auto-frame option of face_to_edit.  selected is what the select
\* shows once the editor has set itself up.
OpenEditor(side, selected) ==
    /\ UNCHANGED <<lookupVars, rarityVars, viewVars, bootVars>>
    /\ autoFrameItem' = StageAutoFrame(serverFaces[side])
    /\ EDITING_BACK' = (side = "back")
    /\ location' = CreatorPage
    /\ autoFrameVal' = selected
    /\ autoLoadChecked' = FALSE
    /\ localStorage' = [localStorage EXCEPT !.autoLoadFrameVersion = "false"]
    /\ ev' = [op |-> "openEditor", side |-> side]
    /\ out' = <<>>
    /\ UNCHANGED <<cardFrames, cardAutoFrame, cardId, saveBtnDisabled,
                   saveBtnText, savePending, labelBeforeClick, serverFaces,
                   lastSavedAutoFrame>>

RoundTripNext ==
    \/ \E v \in AutoFrameOptions : AutoFrameChange(v)
    \/ SaveStored
    \/ \E side \in Sides, selected \in AutoFrameOptions :
          OpenEditor(side, selected)

\* The creator page of an existing card, whose faces were stored earlier.
RoundTripInit ==
    /\ PageInit
    /\ cardId /= NullId
    /\ cardAutoFrame = NoEntry
    /\ bootPc = "ready"
    /\ cardDataText = NoData
    /\ editData = NoItem
    /\ serverFaces \in [Sides -> StoredFaces]
    /\ autoFrameItem = StageAutoFrame(serverFaces[SideOf(EDITING_BACK)])
    /\ lastSavedAutoFrame = [side \in Sides |-> NoEntry]

SpecRoundTrip == RoundTripInit /\ [][RoundTripNext]_vars

----------------------------------------------------------------------------
\* Editor bootstrap bridge.

\* Variant: the three timers are set with no delay.
PostLoadTimersNoDelay == [fn \in RerenderCalls |-> 0]

\* The then-callback of loadCard: three timers of 2000 ms.
PostLoadTimers == [fn \in RerenderCalls |-> PostLoadDelay]

\* The page-ready handler reaches the bootstrap bridge.
BootReady ==
    /\ UNCHANGED <<lookupVars, saveVars, rarityVars, viewVars, faceVars>>
    /\ bootPc = "start"
    /\ bootPc' = "ready"
    /\ IF cardDataText /= NoData
       THEN /\ editData' = JSONStringify(StagedData(JSONParse(cardDataText)))
            /\ loadCardState' = "pending"
            /\ out' = <<Call("localStorage.setItem"), Call("loadCard")>>
       ELSE /\ UNCHANGED <<editData, loadCardState>>
            /\ out' = <<>>
    /\ ev' = [op |-> "ready"]
    /\ UNCHANGED <<cardDataText, loadTimers, renderCalls, sinceLoad>>

\* loadCard("editData") completes: its then-callback sets the timers.
LoadCardResolve ==
    /\ UNCHANGED <<lookupVars, saveVars, rarityVars, viewVars, faceVars>>
    /\ loadCardState = "pending"
    /\ loadCardState' = "resolved"
    /\ loadTimers' = PostLoadTimers
    /\ sinceLoad' = 0
    /\ ev' = [op |-> "loadCardThen"]
    /\ out' = <<>>
    /\ UNCHANGED <<bootPc, cardDataText, editData, renderCalls>>

\* loadCard("editData") fails: there is no catch, nothing else runs.
LoadCardReject ==
    /\ UNCHANGED <<lookupVars, saveVars, rarityVars, viewVars, faceVars>>
    /\ loadCardState = "pending"
    /\ loadCardState' = "rejected"
    /\ ev' = [op |-> "loadCardRejected"]
    /\ out' = <<>>
    /\ UNCHANGED <<bootPc, cardDataText, editData, loadTimers, renderCalls,
                   sinceLoad>>

\* Time passes after loadCard completed.  A timer that is due fires before
\* time moves on.
BootTick ==
    /\ UNCHANGED <<lookupVars, saveVars, rarityVars, viewVars, faceVars>>
    /\ loadCardState = "resolved"
    /\ \A fn \in DOMAIN loadTimers : loadTimers[fn] >= BootStep
    /\ sinceLoad < PostLoadDelay
    /\ loadTimers' = [fn \in DOMAIN loadTimers |-> loadTimers[fn] - BootStep]
    /\ sinceLoad' = Min(sinceLoad + BootStep, PostLoadDelay)
    /\ ev' = [op |-> "tick"]
    /\ out' = <<>>
    /\ UNCHANGED <<bootPc, cardDataText, editData, loadCardState, renderCalls>>

\* A post-load timer fires and calls its function.
Rerender(fn) ==
    /\ UNCHANGED <<lookupVars, saveVars, rarityVars, viewVars, faceVars>>
    /\ fn \in DOMAIN loadTimers
    /\ loadTimers[fn] = 0
    /\ loadTimers' = [g \in DOMAIN loadTimers \ {fn} |-> loadTimers[g]]
    /\ renderCalls' = [renderCalls EXCEPT ![fn] = @ + 1]
    /\ ev' = [op |-> "rerender", fn |-> fn]
    /\ out' = <<Call(fn)>>
    /\ UNCHANGED <<bootPc, cardDataText, editData, loadCardState, sinceLoad>>

BootNext ==
    \/ BootReady
    \/ LoadCardResolve
    \/ LoadCardReject
    \/ BootTick
    \/ \E fn \in RerenderCalls : Rerender(fn)

\* The page before the page-ready handler runs.  Face data is rendered
\* only for a card that exists.
BootInit ==
    /\ PageInit
    /\ NoFaceStored
    /\ bootPc = "start"
    /\ cardDataText \in {NoData} \cup {JSONStringify(d) : d \in FaceData}
    /\ cardDataText /= NoData => cardId /= NullId
    /\ editData \in {NoItem, StaleItem}

SpecBoot == BootInit /\ [][BootNext]_vars

----------------------------------------------------------------------------
\* Properties.

ValidationNotice == Notify("You must give your card a name to save it!")

SaveErrorNotice == Notify("There was an error saving your card.")

\* The $.post calls made by the handler that ran last.
Posts == {j \in 1..Len(out) : out[j].call = "$.post"}

\* C1: when the debounce timer fires for a burst of input events during
\* which the mana-cost field stayed selected, exactly one lookup has been
\* issued for the burst, and its query is the text the field had after the
\* last input event of the burst.
C1_OneLookupWithLastText ==
    (ev.op = "checkScryfall" /\ burstMana)
        => (ev.sent /\ burstLookups = 1 /\ ev.query = lastTyped)

\* C2: no reply to a lookup that was sent before the user typed again is
\* ever written into the field.
C2_EarlierLookupNeverApplied ==
    ~(ev.op = "lookupDone" /\ ev.req.stale /\ Call("textEdited") \in Range(out))

\* C3: a save click with an empty name or the name "unnamed" issues no save
\* request and shows the validation notification, and nothing else.
C3_RejectedNameNoRequest ==
    [][(ev'.op = "saveClick" /\ ev'.name \in {"", "unnamed"})
        => (savePending' = savePending /\ out' = <<ValidationNotice>>)]_vars

C3_Witness ==
    /\ ev.op = "saveClick"
    /\ ev.name = "unnamed"
    /\ out = <<ValidationNotice>>
    /\ savePending = 0

\* C4: the body of every save request has the keys pk and set, and besides
\* them exactly back and back_image when EDITING_BACK, exactly front and
\* front_image otherwise.
C4_BodyKeysFollowEditingBack ==
    \A j \in Posts :
        DOMAIN out[j].data =
            {"pk", "set"} \cup (IF EDITING_BACK THEN {"back", "back_image"}
                                ELSE {"front", "front_image"})

C4_Witness ==
    /\ EDITING_BACK
    /\ ev.op = "saveClick"
    /\ \E j \in Posts : "back" \in DOMAIN out[j].data

\* The card face carried by a save request body.
FaceOf(data) == data[CHOOSE k \in DOMAIN data : k \in {"front", "back"}]

\* C5: the card serialized into a save request has no image entry on any
\* frame nor on any mask of any frame.
C5_NoImageInPayload ==
    \A j \in Posts :
        \A i \in 1..Len(FaceOf(out[j].data)["frames"]) :
            LET f == FaceOf(out[j].data)["frames"][i]
            IN  /\ "image" \notin DOMAIN f
                /\ \A m \in 1..Len(f["masks"]) :
                      "image" \notin DOMAIN f["masks"][m]

C5_Witness ==
    /\ Posts /= {}
    /\ Len(cardFrames) = MaxFrames
    /\ \E i \in 1..Len(cardFrames) :
          /\ "image" \in DOMAIN cardFrames[i]
          /\ \E m \in 1..Len(cardFrames[i]["masks"]) :
                "image" \in DOMAIN cardFrames[i]["masks"][m]

\* C6: a successful save navigates to the view_url of its response, and
\* location.href changes in no other step.
C6_NavigateOnlyToViewUrl ==
    [][/\ ev'.op = "saveDone" => location' = ev'.view_url
       /\ location' /= location => (ev'.op = "saveDone" /\ savePending > 0)]_vars

C6_Witness ==
    /\ ev.op = "saveDone"
    /\ location = "/card/8"
    /\ saveBtnText = "Saved!"

\* C7: after a failed save the button is enabled and has the label it had
\* before the click that started the save, the error notification is
\* shown, and the page has not navigated.
C7_FailRestoresButton ==
    ev.op = "saveFail"
        => /\ ~saveBtnDisabled
           /\ saveBtnText = labelBeforeClick
           /\ out = <<SaveErrorNotice>>
           /\ location = CreatorPage

C7_Witness ==
    /\ ev.op = "saveFail"
    /\ ~saveBtnDisabled
    /\ saveBtnText = "Save Card"
    /\ savePending = 0

\* C8: a confirmed click on the remove-back-face button issues exactly one
\* POST with an empty JSON body to the remove-back-face endpoint, a declined
\* click issues none, and the page reloads only in the .done step of such a
\* POST.
C8_RemoveBackFace ==
    [][/\ (ev'.op = "removeBackClick" /\ ev'.confirmed)
            => /\ Len(out') = 1
               /\ out'[1].call = "$.post"
               /\ out'[1].url = RemoveUrl
               /\ DOMAIN out'[1].data = {}
               /\ removePosts' = removePosts + 1
       /\ (ev'.op = "removeBackClick" /\ ~ev'.confirmed)
            => (out' = <<>> /\ removePosts' = removePosts
                /\ removePending' = removePending)
       /\ reloads' /= reloads
            => (ev'.op = "removeDone" /\ removePending /= <<>>
                /\ reloads' = reloads + 1)]_vars

C8_Witness ==
    /\ ev.op = "removeBackClick"
    /\ ~ev.confirmed
    /\ reloads >= 1
    /\ removePosts >= 2
    /\ removePending /= <<>>

\* C9: selecting a value of the rarity dropdown sets #info-rarity to that
\* value in upper case and calls bottomInfoEdited; an edit of #info-rarity
\* leaves the selection of the dropdown as it was.
C9_RaritySyncOneWay ==
    [][/\ ev'.op = "raritySelect"
            => /\ ev'.value \in {"", "C", "U", "R", "M"}
               /\ setSymbolRarity' = ev'.value
               /\ infoRarity' = toUpperCase(ev'.value)
               /\ Call("bottomInfoEdited") \in Range(out')
       /\ ev'.op = "infoRarityEdit"
            => (infoRarity' = ev'.value /\ setSymbolRarity' = setSymbolRarity)]_vars

C9_Witness ==
    /\ ev.op = "infoRarityEdit"
    /\ infoRarity = "P"
    /\ setSymbolRarity = "M"

\* C10: a failed lookup logs a diagnostic and makes no other call, and
\* leaves the text editor field and the text of the card as they were.
C10_FailedLookupLeavesField ==
    [][ev'.op = "lookupFail"
        => /\ out' = <<Call("console.error")>>
           /\ editorVal' = editorVal
           /\ cardText' = cardText]_vars

C10_Witness ==
    /\ ev.op = "lookupFail"
    /\ out = <<Call("console.error")>>
    /\ editorVal = "2R"
    /\ cardText[1] = "2R"

\* The text box whose name contains "Mana Cost".
ManaField == CHOOSE k \in TextFields : TextFieldNames[k] = <<"Mana", "Cost">>

\* C11: a successful lookup that carries a cost writes that cost into the
\* mana-cost box and into no other text box of the card, and calls the
\* re-render hook, whatever the user did while the request was in flight.
C11_CostWrittenToManaField ==
    [][(ev'.op = "lookupDone" /\ ev'.cost /= "")
        => /\ cardText' = [cardText EXCEPT ![ManaField] = ev'.cost]
           /\ Call("textEdited") \in Range(out')]_vars

\* C13: when the debounce timer fires a lookup is sent if and only if the
\* box selected at that moment has "Mana Cost" in its name; so every lookup
\* in flight, and every lookup whose reply is handled, was sent by a firing
\* at which the mana-cost box was the selected one.
C13_LookupIffManaSelected ==
    /\ ev.op = "checkScryfall"
        => (ev.sent <=> Includes(TextFieldNames[selectedTextIndex],
                                 <<"Mana", "Cost">>))
    /\ \A i \in 1..Len(lookups) :
          Includes(TextFieldNames[lookups[i].field], <<"Mana", "Cost">>)
    /\ ev.op = "lookupDone"
        => Includes(TextFieldNames[ev.req.field], <<"Mana", "Cost">>)

\* The timer fires on the rules box and sends nothing, while a lookup sent
\* by an earlier firing on the mana-cost box is still in flight.
C13_Witness ==
    /\ ev.op = "checkScryfall"
    /\ ~ev.sent
    /\ selectedTextIndex /= ManaField
    /\ Len(lookups) = 1
    /\ lookups[1].field = ManaField

\* C14: at most one debounce timer is pending at any moment, timer firings
\* never outnumber input events, and no firing happens less than 1000 ms
\* after the most recent input event.
C14_OnePendingTimer ==
    /\ Cardinality(DOMAIN timers) <= 1
    /\ inputCredit >= 0
    /\ ev.op = "checkScryfall" => sinceInput >= Debounce

\* The one pending timer has fired, 1000 ms after the last input event.
C14_Witness ==
    /\ ev.op = "checkScryfall"
    /\ timers = <<>>
    /\ ScryfallTimer /= NoTimer
    /\ inputCredit = 0
    /\ sinceInput = Debounce

\* C12: after every failure outcome of the save click handler (the name is
\* rejected, the handler stops after it disabled the button and before it
\* sent a request, the save request fails) the save button is enabled, so
\* that a later click can issue a save request.
C12_FailureLeavesButtonEnabled ==
    \/ ev.op = "saveClick" /\ Posts = {}
    \/ ev.op = "saveFail"
    => ~saveBtnDisabled

\* C15: every save request is issued by a save click whose name passed
\* validation, one request per click at most; no other step, the handling
\* of a failed save included, issues one.
C15_RequestOnlyByAcceptedClick ==
    Cardinality(Posts)
        <= IF ev.op = "saveClick" /\ ev.name \notin {"", "unnamed"}
           THEN 1 ELSE 0

\* A save request failed: the user is told, nothing is sent again and the
\* button waits for the next click.
C15_Witness ==
    /\ ev.op = "saveFail"
    /\ Posts = {}
    /\ savePending = 0
    /\ ~saveBtnDisabled

\* C17: a save click, and the success or failure of the request that
\* follows, leave the live card as it was: every frame and mask keeps its
\* image and no autoFrame entry is added or changed.
C17_SaveLeavesLiveCard ==
    [][ev'.op \in {"saveClick", "saveDone", "saveFail"}
        => /\ cardFrames' = cardFrames
           /\ cardAutoFrame' = cardAutoFrame]_vars

\* A request went out for a card with a masked frame: the frame and its
\* mask still hold their images and the live card has no autoFrame entry,
\* while the face sent has one.
C17_Witness ==
    /\ ev.op = "saveClick"
    /\ \E j \in Posts : FaceOf(out[j].data)["autoFrame"] = "Seventh-3"
    /\ cardAutoFrame = NoEntry
    /\ cardFrames = <<FrameOf(TRUE, <<TRUE>>)>>

\* C18: after a change of the frame group or of the auto-frame option the
\* auto-load-frame-version checkbox is checked and local storage holds
\* "true" under autoLoadFrameVersion; no step sets either back.
C18_AutoLoadTurnedOnAndKept ==
    [][/\ ev'.op \in {"autoFrameChange", "frameGroupChange"}
            => /\ autoLoadChecked'
               /\ localStorage'.autoLoadFrameVersion = "true"
       /\ autoLoadChecked => autoLoadChecked'
       /\ localStorage.autoLoadFrameVersion = "true"
            => localStorage'.autoLoadFrameVersion = "true"]_vars

\* An existing card, loaded with the flag off, after the frame group was
\* changed and a save was started.
C18_Witness ==
    /\ cardId /= NullId
    /\ ev.op = "saveClick"
    /\ autoLoadChecked
    /\ localStorage.autoLoadFrameVersion = "true"

\* C20: at most one save request is in flight; the button is disabled
\* while one is, and stays disabled once one succeeded, so a request is
\* issued only when none is in flight and none has succeeded.
C20_OneSaveInFlight ==
    /\ savePending <= 1
    /\ savePending = 1 => saveBtnDisabled
    /\ ev.op = "saveDone" => saveBtnDisabled
    /\ location /= CreatorPage => saveBtnDisabled
    /\ Posts /= {} => savePending = 1 /\ location = CreatorPage

\* The request succeeded: nothing is in flight, the page is on its way to
\* the view page and the button is still disabled.
C20_Witness ==
    /\ ev.op = "saveDone"
    /\ savePending = 0
    /\ location \in ViewUrls
    /\ saveBtnDisabled
    /\ saveBtnText = "Saved!"

\* C16: loadCard("editData") is called only when face data is present and
\* only after that data was stored under editData; each of textEdited,
\* bottomInfoEdited and resetSetSymbol is called by its timer only after
\* loadCard completed, 2000 ms or more after that, and exactly once (it is
\* either still pending or was called once); without face data nothing is
\* stored, loaded, scheduled or called.
C16_BootstrapOrder ==
    /\ loadCardState /= "not called"
        => /\ cardDataText /= NoData
           /\ editData = JSONStringify(StagedData(JSONParse(cardDataText)))
    /\ Call("loadCard") \in Range(out)
        => out = <<Call("localStorage.setItem"), Call("loadCard")>>
    /\ ev.op = "rerender"
        => loadCardState = "resolved" /\ sinceLoad >= PostLoadDelay
    /\ \A fn \in RerenderCalls :
          renderCalls[fn] + (IF fn \in DOMAIN loadTimers THEN 1 ELSE 0)
            = IF loadCardState = "resolved" THEN 1 ELSE 0
    /\ cardDataText = NoData
        => /\ loadCardState = "not called"
           /\ editData \in {NoItem, StaleItem}
           /\ loadTimers = <<>>

\* Face data with quoted rules text was staged and loaded, and 2000 ms
\* after the load completed all three calls have been made once.
C16_Witness ==
    /\ cardDataText /= NoData
    /\ editData /= NoItem
    /\ HasRulesText(JSONParse(editData))
    /\ JSONParse(editData) /= JSONParse(cardDataText)
    /\ loadCardState = "resolved"
    /\ sinceLoad = PostLoadDelay
    /\ \A fn \in RerenderCalls : renderCalls[fn] = 1

====
